---- MODULE Spec2Model ----
(***************************************************************************)
(* Model of atlas_app.py: a Streamlit script that, on every script run,    *)
(* connects to Google Sheets / Drive, renders the tooth-entry form, reads  *)
(* the row count of the sheet, previews an identifier and, when the form   *)
(* was submitted, uploads the media and appends one row.                   *)
(*                                                                         *)
(* Every browser session runs the script in its own thread, so the runs    *)
(* of different sessions interleave at the calls to the shared spreadsheet *)
(* and the shared Drive folder.  Text is modelled as sequences of          *)
(* one-character strings so that len(), strip(), split() and the "03d"     *)
(* format are computed rather than assumed.                                *)
(***************************************************************************)
EXTENDS Integers, Sequences, FiniteSets, Bags, TLC

\* ------------------------------------------------------------------ bounds

\* Total number of script runs started, over all sessions.
MaxRuns == 2

\* generate_usid is applied to every count in 0..MaxGenCount (and to GenCounts).
MaxGenCount == 12

\* The browser sessions (Streamlit runs each in its own script thread).
Sessions == {"s1", "s2"}

\* ------------------------------------------------------------ text helpers

\* Characters Python's str.strip() removes (the ones the inputs below use).
Whitespace == {" ", "\t"}

RECURSIVE lstrip(_)
lstrip(s) ==
    IF s # <<>> /\ Head(s) \in Whitespace THEN lstrip(Tail(s)) ELSE s

RECURSIVE rstrip(_)
rstrip(s) ==
    IF s # <<>> /\ s[Len(s)] \in Whitespace
    THEN rstrip(SubSeq(s, 1, Len(s) - 1))
    ELSE s

\* str.strip()
strip(s) == rstrip(lstrip(s))

\* name.split('.')[-1]: the text after the last dot, the whole name without one.
RECURSIVE split_last(_)
split_last(name) ==
    IF \E i \in 1..Len(name) : name[i] = "."
    THEN split_last(Tail(name))
    ELSE name

DigitChar == <<"0", "1", "2", "3", "4", "5", "6", "7", "8", "9">>

\* str(n) for n >= 0
RECURSIVE to_decimal(_)
to_decimal(n) ==
    IF n < 10
    THEN <<DigitChar[n + 1]>>
    ELSE to_decimal(n \div 10) \o <<DigitChar[(n % 10) + 1]>>

RECURSIVE zero_pad(_, _)
zero_pad(s, width) ==
    IF Len(s) >= width THEN s ELSE zero_pad(<<"0">> \o s, width)

\* The format spec "03d" of f"{count:03d}", for count >= 0.
format_03d(count) == zero_pad(to_decimal(count), 3)

\* ------------------------------------------------------------ generate_usid

d_code_of(dentition) == IF dentition = "Permanent" THEN <<"P">> ELSE <<"D">>
a_code_of(arch) == IF arch = "Maxillary" THEN <<"M", "x">> ELSE <<"M", "d">>
s_code_of(side) == IF side = "Right" THEN <<"R">> ELSE <<"L">>

\* A plausible slip: the numeric field cut to its last three digits.
generate_usid_truncating(fdi_code, dentition, arch, side, count) ==
    fdi_code \o <<"-">> \o d_code_of(dentition) \o <<"-">> \o a_code_of(arch)
        \o <<"-">> \o s_code_of(side) \o <<"-">> \o format_03d(count % 1000)

generate_usid(fdi_code, dentition, arch, side, count) ==
    fdi_code \o <<"-">> \o d_code_of(dentition) \o <<"-">> \o a_code_of(arch)
        \o <<"-">> \o s_code_of(side) \o <<"-">> \o format_03d(count)


\* ---------------------------------------------------------------- constants

NO_IMAGE == <<"N", "o", " ", "I", "m", "a", "g", "e">>
NO_FILE == <<"N", "o", " ", "F", "i", "l", "e">>
UPLOAD_FAILED ==
    <<"U", "p", "l", "o", "a", "d", " ", "F", "a", "i", "l", "e", "d">>

\* The header row the shared sheet was created with (its cells are not read).
HeaderRow ==
    [usid |-> <<"U", "S", "I", "D">>, dentition |-> "Dentition",
     arch |-> "Arch", side |-> "Side", fdi_code |-> <<"F", "D", "I">>,
     img_link |-> <<"I", "m", "a", "g", "e">>,
     dicom_link |-> <<"C", "B", "C", "T">>]

\* --------------------------------------------------------- input domains

\* st.text_input(..., max_chars=2): at most two characters.
FdiInputs == {<<>>, <<"3">>, <<"3", "6">>}
\* st.radio options.
Dentitions == {"Permanent", "Deciduous"}
Arches == {"Maxillary", "Mandibular"}
Sides == {"Right", "Left"}
\* The <<dentition, arch, side>> choices the runs make: two of the eight, with
\* both options of every radio.
Identities ==
    {id \in Dentitions \X Arches \X Sides :
        \/ id = <<"Permanent", "Maxillary", "Right">>
        \/ id = <<"Deciduous", "Mandibular", "Left">>}
\* st.file_uploader: None (<<>>) or a file, given by its name.
ImageFiles == {<<>>, <<"t", ".", "j", "p", "g">>}
DicomFiles == {<<>>, <<"s", ".", "z", "i", "p">>}
\* "OR paste ... link" text inputs.
LinkInputs == {<<>>, <<" ">>, <<" ", "u", " ">>}
\* The media of one submission: <<uploaded_image, image_link, uploaded_dicom,
\* dicom_link_input>>.
\* Every file/link choice of one medium with the other medium absent, and
\* every choice of the two files.
AllMedia ==
    (ImageFiles \X LinkInputs \X {<<>>} \X {<<>>})
        \cup ({<<>>} \X {<<>>} \X DicomFiles \X LinkInputs)
        \cup (ImageFiles \X {<<>>} \X DicomFiles \X {<<>>})
\* The media of the submissions of interleaved sessions: at most one file.
OneFile ==
    (ImageFiles \X {<<>>} \X {<<>>} \X {<<>>})
        \cup ({<<>>} \X {<<>>} \X DicomFiles \X {<<>>})
NoMedia == <<<<>>, <<>>, <<>>, <<>>>>

\* Inputs of the pure-function specification GenSpec: any strings.
GenFdi == {<<>>, <<"3">>, <<"3", "6">>, <<"1", "1">>, <<"a", "b", "c">>}
GenDentitions == {"Permanent", "Deciduous", "permanent", ""}
GenArches == {"Maxillary", "Mandibular", "maxillary"}
GenSides == {"Right", "Left", "right"}
GenCounts == (0..MaxGenCount) \cup {42, 99, 100, 999, 1000, 1205, 10000}

\* ------------------------------------------------------------------- state

VARIABLES
    rows,    \* the rows of worksheet sheet1 of Master_Dental_Data, header first
    files,   \* the files of folder Dental_Atlas_Uploads, a bag of file names
    run,     \* per session: the script run's position and its variables
    runs     \* number of script runs started so far

vars == <<rows, files, run, runs>>

\* The variables of a script run before any statement assigned them.
FreshRun ==
    [pc |-> "idle",
     gc |-> FALSE, drive_service |-> FALSE, sheet |-> FALSE, folder_id |-> FALSE,
     submitted |-> FALSE,
     fdi_code |-> <<>>, dentition |-> "Permanent", arch |-> "Maxillary",
     side |-> "Right",
     uploaded_image |-> <<>>, image_link |-> <<>>,
     uploaded_dicom |-> <<>>, dicom_link_input |-> <<>>,
     existing_data |-> <<>>, count |-> 0,
     rows_at_read |-> 0,   \* history: the sheet's row count when line 341 ran
     generated_usid |-> <<>>, final_usid |-> <<>>,
     img_link |-> <<>>, dicom_link |-> <<>>,
     shown |-> "none"]

Init ==
    /\ rows = <<HeaderRow>>
    /\ files = EmptyBag
    /\ run = [p \in Sessions |-> FreshRun]
    /\ runs = 0

\* ------------------------------------------------- operations on the stores

\* A slip that refuses a row whose identifier the sheet already holds.
append_row_unique(sheet_rows, new_row) ==
    IF \E i \in 1..Len(sheet_rows) : sheet_rows[i].usid = new_row.usid
    THEN sheet_rows
    ELSE Append(sheet_rows, new_row)

\* A slip that writes over the last row instead of adding one.
append_row_overwriting(sheet_rows, new_row) ==
    IF Len(sheet_rows) > 1
    THEN [sheet_rows EXCEPT ![Len(sheet_rows)] = new_row]
    ELSE Append(sheet_rows, new_row)

\* sheet.append_row(new_row), when the call succeeds.
append_row(sheet_rows, new_row) == Append(sheet_rows, new_row)

\* file.get('webViewLink') of the file Drive created under that name.
webViewLink(filename) == <<"d", "/">> \o filename

\* A slip: the failure sentinel of upload_to_drive confused with "No Image".
upload_to_drive_wrong_sentinel(ok, filename) ==
    IF ok THEN webViewLink(filename) ELSE NO_IMAGE

\* upload_to_drive: the link on success; every exception is caught and the
\* sentinel returned.
upload_to_drive(ok, filename) ==
    IF ok THEN webViewLink(filename) ELSE UPLOAD_FAILED

\* A slip: only over-long codes rejected.
valid_fdi_too_long_only(fdi_code) == Len(fdi_code) <= 2

\* The validation of the submit handler: not (not fdi_code or len(fdi_code) != 2).
valid_fdi(fdi_code) == ~(fdi_code = <<>> \/ Len(fdi_code) # 2)

\* A slip: the header row left out of the count.
row_count_without_header(existing_data) == Len(existing_data) - 1

\* count = len(existing_data)
row_count(existing_data) == Len(existing_data)


\* --------------------------------------------------------- connection steps

\* get_google_clients / get_google_clients_from_uploaded_json, then line 195:
\* the clients, or the run is stopped (st.stop()).
get_google_clients(authorised) == IF authorised THEN "clients" ELSE "stop"

\* gc.open(SHEET_NAME).sheet1: the worksheet, or the run is stopped.
open_sheet(found) == IF found THEN "worksheet" ELSE "stop"

\* A slip: a missing folder answered with None instead of st.stop().
find_drive_folder_id_returns_none(found) == IF found THEN "id" ELSE "none"

\* find_drive_folder_id: the id of the first match, or the run is stopped.
find_drive_folder_id(found) == IF found THEN "id" ELSE "stop"

\* new_row: the cells of the submitted row that the identifier and the media
\* decide; collector, date, source, gender, history, tooth class and the two
\* measurements are copied from the form unchanged and are left out.
new_row(r) ==
    [usid |-> r.final_usid, dentition |-> r.dentition, arch |-> r.arch,
     side |-> r.side, fdi_code |-> r.fdi_code,
     img_link |-> r.img_link, dicom_link |-> r.dicom_link]

\* ------------------------------------------------------------------ actions

\* A session (re)runs the script from the top: a user interaction, a submit.
StartRun(p) ==
    /\ run[p].pc \in {"idle", "stopped"}
    /\ runs < MaxRuns
    /\ runs' = runs + 1
    /\ run' = [run EXCEPT ![p] = [FreshRun EXCEPT !.pc = "connect"]]
    /\ UNCHANGED <<rows, files>>

\* Lines 186-196: authorise the clients by the method the sidebar chose; a
\* failure of either method stops the run.
InitConnection(p) ==
    /\ run[p].pc = "connect"
    /\ \E use_uploaded \in BOOLEAN, authorised \in BOOLEAN :
         LET got == get_google_clients(authorised) IN
         run' = [run EXCEPT ![p] =
                   IF got = "stop"
                   THEN [run[p] EXCEPT !.pc = "stopped"]
                   ELSE [run[p] EXCEPT !.gc = TRUE, !.drive_service = TRUE,
                                  !.pc = "open_sheet"]]
    /\ UNCHANGED <<rows, files, runs>>

\* Lines 198-205 and 211-215: open the spreadsheet.
OpenSheet(p) ==
    /\ run[p].pc = "open_sheet"
    /\ \E found \in BOOLEAN :
         LET got == open_sheet(found) IN
         run' = [run EXCEPT ![p] =
                   IF got = "stop"
                   THEN [run[p] EXCEPT !.pc = "stopped"]
                   ELSE [run[p] EXCEPT !.sheet = TRUE, !.pc = "find_folder"]]
    /\ UNCHANGED <<rows, files, runs>>

\* Lines 207-209: locate the Drive folder.
FindFolder(p) ==
    /\ run[p].pc = "find_folder"
    /\ \E found \in BOOLEAN :
         LET got == find_drive_folder_id(found) IN
         run' = [run EXCEPT ![p] =
                   IF got = "stop"
                   THEN [run[p] EXCEPT !.pc = "stopped"]
                   ELSE [run[p] EXCEPT !.folder_id = (got = "id"), !.pc = "gate"]]
    /\ UNCHANGED <<rows, files, runs>>

\* Line 220: the form is rendered only when connected; otherwise the script
\* has nothing left to run.
FormGate(p) ==
    /\ run[p].pc = "gate"
    /\ run' = [run EXCEPT ![p] =
                 IF run[p].sheet /\ run[p].folder_id
                 THEN [run[p] EXCEPT !.pc = "form"]
                 ELSE [FreshRun EXCEPT !.pc = "idle"]]
    /\ UNCHANGED <<rows, files, runs>>

\* Lines 222-353: the widgets return their values, the row count is read
\* (read_ok: sheet.get_all_values() returned; otherwise the bare except sets
\* count = 1) and the identifier is previewed when fdi_code is not empty.
\* Widgets of an st.form hand their values to the script only with the
\* submit button: a run it did not trigger sees the defaults.
RenderForm(p, read_ok, Media) ==
    /\ run[p].pc = "form"
    /\ \E submit \in BOOLEAN, fdi \in FdiInputs, id \in Identities,
          media \in Media :
         /\ ~submit =>
              /\ fdi = FreshRun.fdi_code
              /\ id = <<FreshRun.dentition, FreshRun.arch, FreshRun.side>>
              /\ media = NoMedia
         /\ LET dent == id[1]
                ar == id[2]
                sd == id[3]
                data == IF read_ok THEN rows ELSE <<>>
                cnt == IF read_ok THEN row_count(data) ELSE 1
                preview == IF fdi # <<>>
                           THEN generate_usid(fdi, dent, ar, sd, cnt)
                           ELSE <<>>
            IN run' = [run EXCEPT ![p] =
                 [run[p] EXCEPT !.submitted = submit, !.fdi_code = fdi,
                                !.dentition = dent, !.arch = ar, !.side = sd,
                                !.uploaded_image = media[1],
                                !.image_link = media[2],
                                !.uploaded_dicom = media[3],
                                !.dicom_link_input = media[4],
                                !.existing_data = data,
                                !.count = cnt,
                                !.rows_at_read = Len(rows),
                                !.generated_usid = preview,
                                !.pc = "submit"]]
    /\ UNCHANGED <<rows, files, runs>>

\* Lines 355-363: validation and the final identifier.
SubmitHandler(p) ==
    /\ run[p].pc = "submit"
    /\ LET r == run[p] IN
       run' = [run EXCEPT ![p] =
                 IF ~r.submitted
                 THEN [r EXCEPT !.pc = "recent"]
                 ELSE IF ~valid_fdi(r.fdi_code)
                 THEN [r EXCEPT !.shown = "invalid", !.pc = "recent"]
                 ELSE [r EXCEPT !.final_usid =
                                    generate_usid(r.fdi_code, r.dentition,
                                                  r.arch, r.side, r.count),
                                !.pc = "image"]]
    /\ UNCHANGED <<rows, files, runs>>

\* Lines 365-374: the image, uploaded or linked.
HandleImage(p) ==
    /\ run[p].pc = "image"
    /\ LET r == run[p]
           fname == r.final_usid \o <<".">> \o split_last(r.uploaded_image)
       IN IF r.uploaded_image # <<>>
          THEN \E ok \in BOOLEAN :
                 /\ files' = IF ok THEN files (+) SetToBag({fname}) ELSE files
                 /\ run' = [run EXCEPT ![p] =
                              [run[p] EXCEPT !.img_link = upload_to_drive(ok, fname),
                                        !.pc = "dicom"]]
          ELSE /\ files' = files
               /\ run' = [run EXCEPT ![p] =
                            [run[p] EXCEPT !.img_link =
                                          IF strip(r.image_link) # <<>>
                                          THEN strip(r.image_link)
                                          ELSE NO_IMAGE,
                                      !.pc = "dicom"]]
    /\ UNCHANGED <<rows, runs>>

\* Lines 376-385: the CBCT file, uploaded or linked.
HandleDicom(p) ==
    /\ run[p].pc = "dicom"
    /\ LET r == run[p]
           fname == r.final_usid \o <<"_", "C", "B", "C", "T", ".">>
                        \o split_last(r.uploaded_dicom)
       IN IF r.uploaded_dicom # <<>>
          THEN \E ok \in BOOLEAN :
                 /\ files' = IF ok THEN files (+) SetToBag({fname}) ELSE files
                 /\ run' = [run EXCEPT ![p] =
                              [run[p] EXCEPT !.dicom_link = upload_to_drive(ok, fname),
                                        !.pc = "append"]]
          ELSE /\ files' = files
               /\ run' = [run EXCEPT ![p] =
                            [run[p] EXCEPT !.dicom_link =
                                          IF strip(r.dicom_link_input) # <<>>
                                          THEN strip(r.dicom_link_input)
                                          ELSE NO_FILE,
                                      !.pc = "append"]]
    /\ UNCHANGED <<rows, runs>>

\* Lines 387-419: the row is built and appended; an exception of append_row
\* is caught, shown, and the row is not added.
SaveRow(p) ==
    /\ run[p].pc = "append"
    /\ \E ok \in BOOLEAN :
         /\ rows' = IF ok THEN append_row(rows, new_row(run[p])) ELSE rows
         /\ run' = [run EXCEPT ![p] =
                      [run[p] EXCEPT !.shown = IF ok THEN "saved" ELSE "error",
                                !.pc = "recent"]]
    /\ UNCHANGED <<files, runs>>

\* Lines 421-433: the recent entries are read and shown; the script ends.
RecentEntries(p) ==
    /\ run[p].pc = "recent"
    /\ run' = [run EXCEPT ![p] = FreshRun]
    /\ UNCHANGED <<rows, files, runs>>

Next ==
    \E p \in Sessions :
        \/ StartRun(p)
        \/ InitConnection(p)
        \/ OpenSheet(p)
        \/ FindFolder(p)
        \/ FormGate(p)
        \/ RenderForm(p, TRUE, OneFile)
        \/ RenderForm(p, FALSE, OneFile)
        \/ SubmitHandler(p)
        \/ HandleImage(p)
        \/ HandleDicom(p)
        \/ SaveRow(p)
        \/ RecentEntries(p)

Spec == Init /\ [][Next]_vars


\* --------------------------------------------- submissions that do not overlap

\* No other session is between its read of the row count and the end of the
\* run that read it (the append, then the read-only list of recent entries).
NoSubmissionInFlight(p) ==
    \A q \in Sessions \ {p} :
        run[q].pc \notin {"submit", "image", "dicom", "append", "recent"}

\* The form step of a session that waits for the submissions in flight, with
\* a row-count read that succeeds.
RenderFormAlone(p) ==
    /\ NoSubmissionInFlight(p)
    /\ RenderForm(p, TRUE, AllMedia)

NextSeq ==
    \E p \in Sessions :
        \/ StartRun(p)
        \/ InitConnection(p)
        \/ OpenSheet(p)
        \/ FindFolder(p)
        \/ FormGate(p)
        \/ RenderFormAlone(p)
        \/ SubmitHandler(p)
        \/ HandleImage(p)
        \/ HandleDicom(p)
        \/ SaveRow(p)
        \/ RecentEntries(p)

SeqSpec == Init /\ [][NextSeq]_vars

\* ------------------------------------------------ generate_usid on its own

\* One call of generate_usid, its arguments drawn from the Gen sets.
InitGen ==
    /\ rows = <<HeaderRow>>
    /\ files = EmptyBag
    /\ runs = 0
    /\ \E fdi \in GenFdi, dent \in GenDentitions, ar \in GenArches,
          sd \in GenSides, cnt \in GenCounts :
         run = [p \in Sessions |->
                  [FreshRun EXCEPT !.pc = "generate", !.fdi_code = fdi,
                                   !.dentition = dent, !.arch = ar,
                                   !.side = sd, !.count = cnt]]

Generate(p) ==
    /\ run[p].pc = "generate"
    /\ LET r == run[p] IN
       run' = [run EXCEPT ![p] =
                 [r EXCEPT !.final_usid =
                               generate_usid(r.fdi_code, r.dentition, r.arch,
                                             r.side, r.count),
                           !.pc = "generated"]]
    /\ UNCHANGED <<rows, files, runs>>

NextGen == \E p \in Sessions : Generate(p)

GenSpec == InitGen /\ [][NextGen]_vars


\* ================================================================== claims

\* The number a string of decimal digits denotes (-1 when a character is no
\* digit): the reading of the numeric field, independent of format_03d.
RECURSIVE decimal_value(_)
decimal_value(s) ==
    IF s = <<>> THEN 0
    ELSE LET c == s[Len(s)]
             rest == decimal_value(SubSeq(s, 1, Len(s) - 1))
         IN IF rest < 0 \/ ~(\E d \in 0..9 : DigitChar[d + 1] = c)
            THEN -1
            ELSE 10 * rest + (CHOOSE d \in 0..9 : DigitChar[d + 1] = c)

\* The part of the identifier before the numeric field, as the claim words it.
claimed_prefix(fdi_code, dentition, arch, side) ==
    fdi_code \o <<"-">>
        \o (IF dentition = "Permanent" THEN <<"P">> ELSE <<"D">>) \o <<"-">>
        \o (IF arch = "Maxillary" THEN <<"M", "x">> ELSE <<"M", "d">>)
        \o <<"-">>
        \o (IF side = "Right" THEN <<"R">> ELSE <<"L">>) \o <<"-">>

\* usid is prefix followed by count in decimal, zero-padded to at least three
\* digits, never truncated and never padded beyond three.
is_usid_of(usid, fdi_code, dentition, arch, side, count) ==
    LET prefix == claimed_prefix(fdi_code, dentition, arch, side)
        n == SubSeq(usid, Len(prefix) + 1, Len(usid))
    IN /\ Len(usid) >= Len(prefix) + 3
       /\ SubSeq(usid, 1, Len(prefix)) = prefix
       /\ decimal_value(n) = count
       /\ Len(n) > 3 => n[1] # "0"

\* C1: for every fdiCode, dentition, arch and side string and every count >= 0,
\* generate_usid returns fdiCode-d-a-s-n with d = P only for "Permanent" (else
\* D), a = Mx only for "Maxillary" (else Md), s = R only for "Right" (else L)
\* and n the count zero-padded to at least 3 digits, never truncated (0 gives
\* 000, 42 gives 042, 1205 gives 1205); the call always yields a result and
\* touches neither store.
C1_UsidFormat ==
    \A p \in Sessions :
        run[p].pc = "generated" =>
            LET r == run[p]
            IN /\ is_usid_of(r.final_usid, r.fdi_code, r.dentition, r.arch,
                             r.side, r.count)
               /\ r.count = 0 =>
                    SubSeq(r.final_usid, Len(r.final_usid) - 3,
                           Len(r.final_usid)) = <<"-", "0", "0", "0">>
               /\ r.count = 42 =>
                    SubSeq(r.final_usid, Len(r.final_usid) - 3,
                           Len(r.final_usid)) = <<"-", "0", "4", "2">>
               /\ r.count = 1205 =>
                    SubSeq(r.final_usid, Len(r.final_usid) - 4,
                           Len(r.final_usid)) = <<"-", "1", "2", "0", "5">>
               /\ rows = <<HeaderRow>> /\ files = EmptyBag

\* C1 witness: the call answered "48-D-Md-L-1205"-like input with unrecognised
\* enum strings and a four-digit count.
C1_Witness ==
    \E p \in Sessions :
        /\ run[p].pc = "generated"
        /\ run[p].count = 1205
        /\ run[p].dentition = "permanent"
        /\ run[p].arch = "maxillary"
        /\ run[p].side = "right"
        /\ run[p].final_usid =
               <<"1", "1", "-", "D", "-", "M", "d", "-", "L", "-",
                 "1", "2", "0", "5">>


\* The run of session p went through the submit handler and reported success.
saved(p) == run[p].pc = "recent" /\ run[p].shown = "saved"

\* The run of session p is one the submit button started, past the form.
submitting(p) ==
    /\ run[p].pc \in {"submit", "image", "dicom", "append", "recent"}
    /\ run[p].submitted

same_identity(r1, r2) ==
    /\ r1.fdi_code = r2.fdi_code /\ r1.dentition = r2.dentition
    /\ r1.arch = r2.arch /\ r1.side = r2.side

\* C2: two submissions that both read the same row count n before either
\* appended both compute sequenceCount = n; with equal fdiCode, dentition, arch
\* and side both rows are appended under one identifier, both runs report
\* success, and nothing detects, retries or prevents the collision.
C2_ConcurrentCollision ==
    \A p, q \in Sessions :
        (/\ p # q /\ saved(p) /\ saved(q)
         /\ run[p].count = run[q].count
         /\ same_identity(run[p], run[q]))
        => /\ run[p].final_usid = run[q].final_usid
           /\ is_usid_of(run[p].final_usid, run[p].fdi_code, run[p].dentition,
                         run[p].arch, run[p].side, run[q].count)
           /\ \E i, j \in 1..Len(rows) :
                /\ i # j
                /\ rows[i] = new_row(run[p])
                /\ rows[j] = new_row(run[q])
                /\ rows[i].usid = rows[j].usid

\* C2 witness: both sessions read the same rows before either appended, and
\* the sheet now holds two rows with one identifier.
C2_Witness ==
    \E p, q \in Sessions :
        /\ p # q /\ saved(p) /\ saved(q)
        /\ run[p].existing_data = run[q].existing_data
        /\ run[p].existing_data = <<HeaderRow>>
        /\ Len(rows) = 3
        /\ rows[2].usid = rows[3].usid


\* s holds no character but whitespace (the empty string included).
blank(s) == \A i \in 1..Len(s) : s[i] \in Whitespace

\* The names the submit handler gives the files of run r.
image_name(r) == r.final_usid \o <<".", "j", "p", "g">>
cbct_name(r) == r.final_usid \o <<"_", "C", "B", "C", "T", ".", "z", "i", "p">>

\* C3: in a submission that passed validation a failed upload of the image or
\* of the CBCT file does not abort: the run goes on to the append, the field of
\* the failed upload holds "Upload Failed", and the row appended carries it; a
\* medium with neither a file nor a pasted link holds "No Image" / "No File".
C3_UploadFailureSentinel ==
    \A p \in Sessions :
        LET r == run[p] IN
        /\ (r.pc \in {"dicom", "append", "recent"} /\ r.final_usid # <<>>) =>
             /\ (r.uploaded_image # <<>> /\ ~BagIn(image_name(r), files))
                    => r.img_link = UPLOAD_FAILED
             /\ (r.uploaded_image = <<>> /\ blank(r.image_link))
                    => r.img_link = NO_IMAGE
        /\ (r.pc \in {"append", "recent"} /\ r.final_usid # <<>>) =>
             /\ (r.uploaded_dicom # <<>> /\ ~BagIn(cbct_name(r), files))
                    => r.dicom_link = UPLOAD_FAILED
             /\ (r.uploaded_dicom = <<>> /\ blank(r.dicom_link_input))
                    => r.dicom_link = NO_FILE
        /\ saved(p) =>
             \E i \in 2..Len(rows) :
                 /\ rows[i].usid = r.final_usid
                 /\ rows[i].img_link = r.img_link
                 /\ rows[i].dicom_link = r.dicom_link

\* C3 witness: both uploads of a submission failed and its row was appended
\* with the two sentinels; an earlier row holds "No Image" and "No File".
C3_Witness ==
    /\ \E p \in Sessions :
         /\ saved(p)
         /\ run[p].uploaded_image # <<>> /\ run[p].uploaded_dicom # <<>>
         /\ files = EmptyBag
         /\ rows[Len(rows)].img_link = UPLOAD_FAILED
         /\ rows[Len(rows)].dicom_link = UPLOAD_FAILED
    /\ Len(rows) = 3
    /\ rows[2].img_link = NO_IMAGE /\ rows[2].dicom_link = NO_FILE

\* The FDI code is empty or not exactly two characters long.
malformed(fdi_code) == Len(fdi_code) # 2

\* C4: a submission whose FDI code is empty or not exactly 2 long is rejected:
\* no step of its run uploads a file or appends a row, so both stores are left
\* as they were by it.
C4_InvalidFdiRejected ==
    [][\A p \in Sessions :
          (/\ run'[p] # run[p]
           /\ \/ submitting(p) /\ malformed(run[p].fdi_code)
              \/ run'[p].submitted /\ malformed(run'[p].fdi_code))
          => /\ rows' = rows /\ files' = files
             /\ run'[p].pc \in {"submit", "recent", "idle"}
             /\ run'[p].final_usid = <<>>]_vars

\* C4 witness: a submission with a one-character code and a file to upload was
\* answered with the validation error.
C4_Witness ==
    \E p \in Sessions :
        /\ run[p].pc = "recent" /\ run[p].shown = "invalid"
        /\ Len(run[p].fdi_code) = 1
        /\ run[p].uploaded_image # <<>>


\* C5: the sequenceCount of a persisted identifier is the row count of the
\* sheet at the moment the submitting run read it (line 341 of that run), not
\* a value of an earlier render.
C5_SubmitTimeCount ==
    \A p \in Sessions :
        saved(p) =>
            is_usid_of(run[p].final_usid, run[p].fdi_code, run[p].dentition,
                       run[p].arch, run[p].side, run[p].rows_at_read)

\* C6: the sheet is append-only: a step leaves the rows as they are or adds
\* exactly one row after them; the step in which a run reports success adds
\* that run's row, a step in which a run reports a validation or a save error
\* adds none, and no other step adds a row.
C6_AppendOnly ==
    [][/\ \/ rows' = rows
          \/ /\ Len(rows') = Len(rows) + 1
             /\ SubSeq(rows', 1, Len(rows)) = rows
       /\ \A p \in Sessions :
            /\ (run'[p].shown = "saved" /\ run[p].shown # "saved")
                   => /\ Len(rows') = Len(rows) + 1
                      /\ rows'[Len(rows')].usid = run'[p].final_usid
            /\ (run'[p].shown \in {"invalid", "error"}
                    /\ run[p].shown # run'[p].shown)
                   => rows' = rows
       /\ rows' # rows =>
            \E p \in Sessions :
                run'[p].shown = "saved" /\ run[p].shown # "saved"]_vars

\* C6 witness: two rows were appended after the header and the latest run
\* reported success.
C6_Witness ==
    /\ Len(rows) = 3
    /\ rows[1] = HeaderRow
    /\ \E p \in Sessions : saved(p) /\ rows[3].usid = run[p].final_usid

\* C7: generate_usid is never called with an fdiCode that is empty or not 2
\* long, neither for the preview nor for the final identifier.
C7_GeneratorPrecondition ==
    \A p \in Sessions :
        (run[p].generated_usid # <<>> \/ run[p].final_usid # <<>>)
            => ~malformed(run[p].fdi_code)

\* C8: a failure of a spreadsheet operation in a submission attempt (the read
\* of the row count, the append) is surfaced and aborts the attempt: the run
\* goes no further than the error, appends no row and does not retry.
C8_SpreadsheetFailureAborts ==
    /\ [](\A p \in Sessions :
            (submitting(p) /\ run[p].existing_data = <<>>)
                => /\ run[p].pc \in {"submit", "recent"}
                   /\ run[p].final_usid = <<>>
                   /\ run[p].shown # "saved")
    /\ [][\A p \in Sessions :
            (run'[p].shown = "error" /\ run[p].shown # "error")
                => /\ rows' = rows
                   /\ run'[p].pc = "recent"]_vars

\* A run is connected: clients authorised, spreadsheet opened, folder found.
connected(r) == r.gc /\ r.drive_service /\ r.sheet /\ r.folder_id

RECURSIVE count_field(_)
count_field(usid) ==
    IF \E i \in 1..Len(usid) : usid[i] = "-"
    THEN count_field(Tail(usid))
    ELSE usid

\* C10: when submissions do not overlap and every read of the row count
\* succeeds, the sequenceCount of each persisted identifier is the number of
\* rows (header included) the sheet held just before the row was appended; the
\* counts grow strictly in append order and the identifiers are pairwise
\* distinct.
C10_SequentialCounts ==
    /\ \A i \in 2..Len(rows) :
         /\ is_usid_of(rows[i].usid, rows[i].fdi_code, rows[i].dentition,
                       rows[i].arch, rows[i].side, i - 1)
         /\ decimal_value(count_field(rows[i].usid)) = i - 1
    /\ \A i, j \in 2..Len(rows) :
         i < j =>
             /\ decimal_value(count_field(rows[i].usid))
                    < decimal_value(count_field(rows[j].usid))
             /\ rows[i].usid # rows[j].usid

\* C10 witness: two submissions of the same tooth, one after the other, got
\* the counts 1 and 2.
C10_Witness ==
    /\ Len(rows) = 3
    /\ same_identity(rows[2], rows[3])
    /\ decimal_value(count_field(rows[2].usid)) = 1
    /\ decimal_value(count_field(rows[3].usid)) = 2

====
